---- MODULE Spec2Model ----
(***************************************************************************)
(* Training orchestration of playground/model/train.py: the model builder  *)
(* (get_hidden, build_model), the search / retrain / ensemble phases of    *)
(* train_model, wrap_ensemble and the top-level train pipeline.            *)
(*                                                                         *)
(* Numeric training is not computed: every fit yields metric values drawn  *)
(* from small sets.  Probabilities are exact fractions Scale-ths, so the   *)
(* mean of wrap_ensemble is an exact rational <<numerator, denominator>>.  *)
(***************************************************************************)
EXTENDS Integers, Sequences, FiniteSets, TLC

VARIABLES
    pc,             \* position of the single thread of control in train / train_model
    datasets,       \* datasets built so far by train, in construction order
    class_weight,   \* class weight table of train (empty until computed)
    inputs,         \* Feature Set of train (empty until derived)
    temp_dir,       \* the TemporaryDirectory of train_model: "absent", "exists", "removed"
    tuner,          \* the kt.Hyperband object: <<>> or <<its settings>>
    trials,         \* trials completed by tuner.search: sequence of [hp, score]
    exc,            \* TRUE while an exception is propagating
    best_hps,       \* best_hps of train_model (NoHp until selected)
    model,          \* the retrained model of train_model: <<>> or <<fitted model>>
    history,        \* history.history["val_auc"] of the retrain fit
    es_wait,        \* EarlyStopping.wait of the callbacks list
    es_best,        \* EarlyStopping.best (Inf after on_train_begin)
    stop_training,  \* model.stop_training of the retrained model
    best_epoch,     \* best_epoch of train_model (0 until computed)
    hypermodels,    \* the hypermodels list of train_model
    ensemble_model, \* the wrapped model: <<>> or <<wrapped model>>
    saved,          \* models written to model_directory by model.save
    evaluated,      \* models passed to model.evaluate / model.predict
    log,            \* the records emitted through logger
    run,            \* number of the current invocation of train
    prev,           \* what the previous invocation of train selected
    arg,            \* argument of the function under test (function-level specifications)
    ret             \* its result

vars == <<pc, datasets, class_weight, inputs, temp_dir, tuner, trials, exc,
          best_hps, model, history, es_wait, es_best, stop_training, best_epoch,
          hypermodels, ensemble_model, saved, evaluated, log, run, prev, arg, ret>>

pipeVars == <<pc, datasets, class_weight, inputs, temp_dir, tuner, trials, exc,
              best_hps, model, history, es_wait, es_best, stop_training, best_epoch,
              hypermodels, ensemble_model, saved, evaluated, log>>

(***************************************************************************)
(* Program constants.                                                      *)
(***************************************************************************)
MinLayers == 1
MaxLayers == 3
FirstLayerUnits == {32, 64, 128, 512, 1024, 2048}
MaxDropout == 5                           \* dropout in tenths: 0.0 .. 0.5, step 0.1
Activations == {"relu", "tanh", "sigmoid", "elu", "selu"}
Regularizations == {"l1", "l2", "l1_l2", "none"}
MinLrExp == 5                             \* lr = 10^-LrExp, 1e-5 .. 1e-2
MaxLrExp == 2
TunerMaxEpochs == 10
TunerFactor == 3
FitEpochs == 10
EarlyStoppingPatience == 3
EnsembleSize == 3
BatchSize == 64
ShuffleSeed == 17

(***************************************************************************)
(* Bounds of the model.                                                    *)
(***************************************************************************)
MaxTrials == 2      \* trials run by one search
MaxScore == 2       \* trial objectives are 1 .. MaxScore
MaxAuc == 2         \* validation AUC values of the retrain study are 1 .. MaxAuc
MaxLoss == 2        \* its validation losses are 0 .. MaxLoss, or NaN
Scale == 10         \* probabilities are 0/Scale .. Scale/Scale
MaxCurveLen == 5    \* longest curve given to the best-epoch selection on its own
MaxMembers == 3     \* most members given to wrap_ensemble on its own

NaN == -1           \* a validation loss that compares false with everything
Inf == MaxLoss + 1  \* np.Inf: above every validation loss

(***************************************************************************)
(* Hyperparameter space declared by get_hidden and build_model.            *)
(***************************************************************************)
HpSpace ==
    [layers : MinLayers..MaxLayers,
     first_layer_units : FirstLayerUnits,
     dropout : 0..MaxDropout,
     activation : Activations,
     regularization : Regularizations,
     lr : MaxLrExp..MinLrExp]

NoHp == [layers |-> 0, first_layer_units |-> 0, dropout |-> 0,
         activation |-> "", regularization |-> "", lr |-> 0]

\* get_hidden, lines 30-31: "none" means no regularizer.
Regularizer(hp) == IF hp.regularization = "none" THEN "None" ELSE hp.regularization

\* get_hidden with the halving moved before the layer is built.
RECURSIVE HiddenLoopHalvesFirst(_, _, _, _)
HiddenLoopHalvesFirst(hp, i, units, hidden) ==
    IF i >= hp.layers THEN hidden
    ELSE HiddenLoopHalvesFirst(hp, i + 1, units \div 2,
                    Append(hidden, [units |-> units \div 2,
                                    activation |-> hp.activation,
                                    kernel_regularizer |-> Regularizer(hp),
                                    bias_regularizer |-> Regularizer(hp),
                                    dropout |-> hp.dropout]))

\* get_hidden, lines 34-42: the for loop; i blocks are built, units is the next width.
RECURSIVE HiddenLoop(_, _, _, _)
HiddenLoop(hp, i, units, hidden) ==
    IF i >= hp.layers THEN hidden
    ELSE HiddenLoop(hp, i + 1, units \div 2,
                    Append(hidden, [units |-> units,
                                    activation |-> hp.activation,
                                    kernel_regularizer |-> Regularizer(hp),
                                    bias_regularizer |-> Regularizer(hp),
                                    dropout |-> hp.dropout]))

get_hidden(hp) == HiddenLoop(hp, 0, hp.first_layer_units, <<>>)

build_model(hp, ins) ==
    [inputs |-> ins,
     hidden |-> get_hidden(hp),
     output_units |-> 1,
     output_activation |-> "sigmoid",
     lr |-> hp.lr,
     loss |-> "binary_crossentropy",
     hp |-> hp]

(***************************************************************************)
(* Data the pipeline works on.                                             *)
(***************************************************************************)
LabelName == "classification_target"
Columns == {"id", "f1", "f2", LabelName}

\* train, lines 184-216: the four make_csv_dataset calls, in the order of the code.
DatasetPlan ==
    << [name |-> "train_ds", files |-> {"train_file"}, batch_size |-> BatchSize,
        shuffle |-> TRUE, shuffle_seed |-> ShuffleSeed],
       [name |-> "valid_ds", files |-> {"validation_file"}, batch_size |-> BatchSize,
        shuffle |-> FALSE, shuffle_seed |-> 0],
       [name |-> "train_and_valid_ds", files |-> {"train_file", "validation_file"},
        batch_size |-> BatchSize, shuffle |-> TRUE, shuffle_seed |-> ShuffleSeed],
       [name |-> "eval_ds", files |-> {"evaluation_file"}, batch_size |-> BatchSize,
        shuffle |-> FALSE, shuffle_seed |-> 0] >>

\* element_spec of a dataset made with label_name: the feature columns without the label.
ElementSpecFeatures == Columns \ {LabelName}

\* get_class_weights(train_file): label value -> positive weight.
ClassWeightTable == {<<0, 1>>, <<1, 4>>}

\* The callbacks list of train_model, lines 86-99.
Callbacks == {"ReduceLROnPlateau", "EarlyStopping"}

\* Configurations the unseeded sampler of the tuner draws in the checked runs.
SampledHps ==
    {hp \in HpSpace : /\ hp.first_layer_units \in {32, 2048}
                      /\ hp.layers = (IF hp.first_layer_units = 32 THEN 3 ELSE 1)
                      /\ hp.dropout = 0
                      /\ hp.activation = "relu"
                      /\ hp.regularization = "none"
                      /\ hp.lr = MaxLrExp}

Scores == 1..MaxScore

\* Metric values the fits of the pipeline study yield: per-epoch validation AUC and
\* validation loss of the retrain, and the prediction of a trained ensemble member.
PipeAucs == {1, 2}
PipeLosses == {NaN, 0}
PipeOutputs == {0, Scale}

\* The retrain study: one configuration and one objective value in the search, and
\* enough validation losses for a fit to improve up to its last epoch.
FitHps == {hp \in SampledHps : hp.layers = 1}
FitScores == {1}
FitAucs == 1..MaxAuc
FitLosses == {NaN} \cup 0..MaxLoss
FitOutputs == {Scale}

\* The two-invocation study.
TwoRunAucs == {1, 2}
TwoRunLosses == {0}
TwoRunOutputs == {Scale}

\* Inputs of the function-level studies.
CurveAucs == {50, 60, 70, 90}       \* validation AUC in hundredths
Curves == UNION {[1..n -> CurveAucs] : n \in 1..MaxCurveLen}
MemberLists == UNION {[1..n -> [output : 0..Scale]] : n \in 1..MaxMembers}

LogRec(msg, hp, n) == [msg |-> msg, hp |-> hp, n |-> n]

(***************************************************************************)
(* Pure functions of the code.                                             *)
(***************************************************************************)
\* An argmax that keeps the last index holding the maximum.
RECURSIVE ArgMaxFromLast(_, _, _)
ArgMaxFromLast(s, i, best) ==
    IF i > Len(s) THEN best - 1
    ELSE IF s[i] >= s[best] THEN ArgMaxFromLast(s, i + 1, i)
    ELSE ArgMaxFromLast(s, i + 1, best)

\* np.argmax of a non-empty sequence, 0-indexed: the first index holding the maximum.
RECURSIVE ArgMaxFrom(_, _, _)
ArgMaxFrom(s, i, best) ==
    IF i > Len(s) THEN best - 1
    ELSE IF s[i] > s[best] THEN ArgMaxFrom(s, i + 1, i)
    ELSE ArgMaxFrom(s, i + 1, best)

ArgMax(s) == ArgMaxFrom(s, 2, 1)

\* The best epoch left 0-indexed.
BestEpochZeroIndexed(val_auc_per_epoch) == ArgMax(val_auc_per_epoch)

\* train_model, line 123.
BestEpoch(val_auc_per_epoch) == ArgMax(val_auc_per_epoch) + 1

\* Oracle.get_best_trials as called at line 110: the completed trials sorted by score,
\* highest first (direction "max"); the sort is stable, so the earliest of equal
\* scores comes first.  IsBefore(t, i, j): trial i is sorted before trial j.
IsBeforeAscending(t, i, j) == t[i].score < t[j].score \/ (t[i].score = t[j].score /\ i < j)

IsBefore(t, i, j) == t[i].score > t[j].score \/ (t[i].score = t[j].score /\ i < j)

get_best_hyperparameters(t, num_trials) ==
    LET first == CHOOSE i \in 1..Len(t) : \A j \in 1..Len(t) : j # i => IsBefore(t, i, j)
    IN  IF num_trials >= 1 /\ Len(t) >= 1 THEN <<t[first].hp>> ELSE <<>>

\* tf.keras.layers.Concatenate over [model.output for model in models]: one scalar each.
RECURSIVE Concatenate(_)
Concatenate(models) ==
    IF models = <<>> THEN <<>>
    ELSE <<Head(models).output>> \o Concatenate(Tail(models))

\* tf.reduce_mean over the last axis: the sum, accumulated in axis order, over the count.
RECURSIVE ReduceSum(_)
ReduceSum(s) == IF s = <<>> THEN 0 ELSE Head(s) + ReduceSum(Tail(s))

\* A reduction over the wrong axis: every member's output is left as it is, and
\* the first one becomes the output.
reduce_meanWrongAxis(s) == [num |-> Head(s), den |-> 1]

reduce_mean(s) == [num |-> ReduceSum(s), den |-> Len(s)]

wrap_ensemble(ins, models) ==
    [inputs |-> ins,
     members |-> models,
     output |-> reduce_mean(Concatenate(models)),
     loss |-> "binary_crossentropy"]

\* EarlyStopping._is_improvement with monitor val_loss: np.less(current, best).
IsImprovement(current, best) == current # NaN /\ current < best

\* A model after fit(data, epochs, class_weight, callbacks).
Fitted(m, data, epochs, cw, cbs, out) ==
    [net |-> m, data |-> data, epochs |-> epochs, class_weight |-> cw,
     callbacks |-> cbs, output |-> out]

(***************************************************************************)
(* The pipeline: train (lines 168-247) calling train_model (lines 67-143). *)
(***************************************************************************)
PipeInit ==
    /\ datasets = <<>>
    /\ class_weight = {}
    /\ inputs = {}
    /\ temp_dir = "absent"
    /\ tuner = <<>>
    /\ trials = <<>>
    /\ exc = FALSE
    /\ best_hps = NoHp
    /\ model = <<>>
    /\ history = <<>>
    /\ es_wait = 0
    /\ es_best = Inf
    /\ stop_training = FALSE
    /\ best_epoch = 0
    /\ hypermodels = <<>>
    /\ ensemble_model = <<>>
    /\ saved = <<>>
    /\ evaluated = <<>>
    /\ log = <<>>

Init ==
    /\ pc = "datasets"
    /\ PipeInit
    /\ run = 1
    /\ prev = <<>>
    /\ arg = <<>>
    /\ ret = <<>>

\* train, lines 184-216: the next make_csv_dataset call.
MakeCsvDataset ==
    /\ pc = "datasets"
    /\ datasets' = Append(datasets, DatasetPlan[Len(datasets) + 1])
    /\ pc' = IF Len(datasets) + 1 = Len(DatasetPlan) THEN "class_weight" ELSE "datasets"
    /\ UNCHANGED <<class_weight, inputs, temp_dir, tuner, trials, exc, best_hps, model,
                   history, es_wait, es_best, stop_training, best_epoch, hypermodels,
                   ensemble_model, saved, evaluated, log, run, prev, arg, ret>>

\* train, line 217.
GetClassWeights ==
    /\ pc = "class_weight"
    /\ class_weight' = ClassWeightTable
    /\ pc' = "inputs"
    /\ UNCHANGED <<datasets, inputs, temp_dir, tuner, trials, exc, best_hps, model,
                   history, es_wait, es_best, stop_training, best_epoch, hypermodels,
                   ensemble_model, saved, evaluated, log, run, prev, arg, ret>>

\* train, lines 219-226, and the call of train_model at line 228.
DeriveInputs ==
    /\ pc = "inputs"
    /\ inputs' = ElementSpecFeatures \ {"id"}
    /\ pc' = "enter_with"
    /\ UNCHANGED <<datasets, class_weight, temp_dir, tuner, trials, exc, best_hps, model,
                   history, es_wait, es_best, stop_training, best_epoch, hypermodels,
                   ensemble_model, saved, evaluated, log, run, prev, arg, ret>>

\* train_model, lines 75-76: entering the with block creates the directory.
EnterWith ==
    /\ pc = "enter_with"
    /\ temp_dir' = "exists"
    /\ log' = Append(log, LogRec("Using %s as temporary directory", NoHp, 0))
    /\ pc' = "tuner"
    /\ UNCHANGED <<datasets, class_weight, inputs, tuner, trials, exc, best_hps, model,
                   history, es_wait, es_best, stop_training, best_epoch, hypermodels,
                   ensemble_model, saved, evaluated, run, prev, arg, ret>>

\* train_model, lines 77-100: the tuner and the callbacks are constructed.
NewHyperband ==
    /\ pc = "tuner"
    /\ tuner' = << [objective |-> "val_auc", direction |-> "max",
                    max_epochs |-> TunerMaxEpochs, factor |-> TunerFactor,
                    directory |-> "temp_dir", inputs |-> inputs] >>
    /\ log' = Append(log, LogRec("Starting hyperparameter search", NoHp, 0))
    /\ pc' = "search"
    /\ UNCHANGED <<datasets, class_weight, inputs, temp_dir, trials, exc, best_hps, model,
                   history, es_wait, es_best, stop_training, best_epoch, hypermodels,
                   ensemble_model, saved, evaluated, run, prev, arg, ret>>

\* train_model, line 77: kt.Hyperband raises; the exception leaves the with block.
NewHyperbandFails ==
    /\ pc = "tuner"
    /\ exc' = TRUE
    /\ pc' = "exit_with"
    /\ UNCHANGED <<datasets, class_weight, inputs, temp_dir, tuner, trials, best_hps, model,
                   history, es_wait, es_best, stop_training, best_epoch, hypermodels,
                   ensemble_model, saved, evaluated, log, run, prev, arg, ret>>

\* train_model, lines 101-108: tuner.search runs one more trial to its end.
SearchTrial(Hps, Ss) ==
    /\ pc = "search"
    /\ Len(trials) < MaxTrials
    /\ \E hp \in Hps, score \in Ss :
          trials' = Append(trials, [hp |-> hp, score |-> score,
                                    class_weight |-> class_weight,
                                    callbacks |-> Callbacks,
                                    data |-> <<"train_ds", "valid_ds">>])
    /\ UNCHANGED <<pc, datasets, class_weight, inputs, temp_dir, tuner, exc, best_hps, model,
                   history, es_wait, es_best, stop_training, best_epoch, hypermodels,
                   ensemble_model, saved, evaluated, log, run, prev, arg, ret>>

\* train_model, lines 101-108: the fit of a trial raises out of tuner.search.
SearchTrialFails ==
    /\ pc = "search"
    /\ Len(trials) < MaxTrials
    /\ exc' = TRUE
    /\ pc' = "exit_with"
    /\ UNCHANGED <<datasets, class_weight, inputs, temp_dir, tuner, trials, best_hps, model,
                   history, es_wait, es_best, stop_training, best_epoch, hypermodels,
                   ensemble_model, saved, evaluated, log, run, prev, arg, ret>>

\* train_model, lines 110-111: tuner.search has returned; the best configuration is unpacked.
GetBestHyperparameters ==
    /\ pc = "search"
    /\ Len(trials) = MaxTrials
    /\ LET best == get_best_hyperparameters(trials, 1)
       IN  /\ Len(best) = 1
           /\ best_hps' = best[1]
           /\ log' = Append(log, LogRec("Best hyperparameters: %s", best[1], 0))
    /\ pc' = "exit_with"
    /\ UNCHANGED <<datasets, class_weight, inputs, temp_dir, tuner, trials, exc, model,
                   history, es_wait, es_best, stop_training, best_epoch, hypermodels,
                   ensemble_model, saved, evaluated, run, prev, arg, ret>>

\* A with block that cleans up only when it is left without an exception.
ExitWithLeaks ==
    /\ pc = "exit_with"
    /\ temp_dir' = IF exc THEN temp_dir ELSE "removed"
    /\ pc' = IF exc THEN "raised" ELSE "retrain_build"
    /\ UNCHANGED <<datasets, class_weight, inputs, tuner, trials, exc, best_hps, model,
                   history, es_wait, es_best, stop_training, best_epoch, hypermodels,
                   ensemble_model, saved, evaluated, log, run, prev, arg, ret>>

\* train_model, line 75: TemporaryDirectory.__exit__ on leaving the with block, by
\* falling off its end or by an exception, which then leaves train_model and train.
ExitWith ==
    /\ pc = "exit_with"
    /\ temp_dir' = "removed"
    /\ pc' = IF exc THEN "raised" ELSE "retrain_build"
    /\ UNCHANGED <<datasets, class_weight, inputs, tuner, trials, exc, best_hps, model,
                   history, es_wait, es_best, stop_training, best_epoch, hypermodels,
                   ensemble_model, saved, evaluated, log, run, prev, arg, ret>>

\* train_model, lines 113-114: the model is rebuilt and fit begins (on_train_begin
\* resets the callbacks).
RetrainBuild ==
    /\ pc = "retrain_build"
    /\ model' = <<build_model(best_hps, tuner[1].inputs)>>
    /\ history' = <<>>
    /\ es_wait' = 0
    /\ es_best' = Inf
    /\ stop_training' = FALSE
    /\ pc' = "retrain_fit"
    /\ UNCHANGED <<datasets, class_weight, inputs, temp_dir, tuner, trials, exc, best_hps,
                   best_epoch, hypermodels, ensemble_model, saved, evaluated, log,
                   run, prev, arg, ret>>

\* train_model, lines 114-121: one epoch of the retrain fit, then
\* EarlyStopping.on_epoch_end(monitor val_loss, patience 3).
RetrainEpoch(As, Ls) ==
    /\ pc = "retrain_fit"
    /\ Len(history) < FitEpochs
    /\ ~stop_training
    /\ \E val_auc \in As, val_loss \in Ls :
          /\ history' = Append(history, val_auc)
          /\ IF IsImprovement(val_loss, es_best)
             THEN /\ es_best' = val_loss
                  /\ es_wait' = 0
                  /\ stop_training' = FALSE
             ELSE /\ es_best' = es_best
                  /\ es_wait' = es_wait + 1
                  /\ stop_training' = (es_wait + 1 >= EarlyStoppingPatience)
    /\ UNCHANGED <<pc, datasets, class_weight, inputs, temp_dir, tuner, trials, exc, best_hps,
                   model, best_epoch, hypermodels, ensemble_model, saved, evaluated, log,
                   run, prev, arg, ret>>

\* train_model, lines 114-121: the retrain fit raises.
RetrainFitFails ==
    /\ pc = "retrain_fit"
    /\ Len(history) < FitEpochs
    /\ ~stop_training
    /\ exc' = TRUE
    /\ pc' = "raised"
    /\ UNCHANGED <<datasets, class_weight, inputs, temp_dir, tuner, trials, best_hps, model,
                   history, es_wait, es_best, stop_training, best_epoch, hypermodels,
                   ensemble_model, saved, evaluated, log, run, prev, arg, ret>>

\* train_model, lines 122-124: fit has returned; the best epoch is selected.
SelectBestEpoch ==
    /\ pc = "retrain_fit"
    /\ Len(history) = FitEpochs \/ stop_training
    /\ best_epoch' = BestEpoch(history)
    /\ log' = Append(log, LogRec("Best epoch is %d", NoHp, BestEpoch(history)))
    /\ pc' = "ensemble"
    /\ UNCHANGED <<datasets, class_weight, inputs, temp_dir, tuner, trials, exc, best_hps, model,
                   history, es_wait, es_best, stop_training, hypermodels,
                   ensemble_model, saved, evaluated, run, prev, arg, ret>>

\* An ensemble loop that reuses the budget and the callbacks of the retrain fit.
TrainHypermodelAsRetrain(Os) ==
    /\ pc = "ensemble"
    /\ Len(hypermodels) < EnsembleSize
    /\ log' = Append(log, LogRec("Training hypermodel %d", NoHp, Len(hypermodels) + 1))
    /\ \E out \in Os :
          hypermodels' = Append(hypermodels,
                                Fitted(build_model(best_hps, tuner[1].inputs),
                                       "train_and_valid_ds", FitEpochs, class_weight,
                                       Callbacks, out))
    /\ UNCHANGED <<pc, datasets, class_weight, inputs, temp_dir, tuner, trials, exc, best_hps,
                   model, history, es_wait, es_best, stop_training, best_epoch,
                   ensemble_model, saved, evaluated, run, prev, arg, ret>>

\* train_model, lines 127-137: one iteration of the ensemble loop.
TrainHypermodel(Os) ==
    /\ pc = "ensemble"
    /\ Len(hypermodels) < EnsembleSize
    /\ log' = Append(log, LogRec("Training hypermodel %d", NoHp, Len(hypermodels) + 1))
    /\ \E out \in Os :
          hypermodels' = Append(hypermodels,
                                Fitted(build_model(best_hps, tuner[1].inputs),
                                       "train_and_valid_ds", best_epoch, class_weight,
                                       {}, out))
    /\ UNCHANGED <<pc, datasets, class_weight, inputs, temp_dir, tuner, trials, exc, best_hps,
                   model, history, es_wait, es_best, stop_training, best_epoch,
                   ensemble_model, saved, evaluated, run, prev, arg, ret>>

\* An ensemble loop that catches the failure of a member and goes on to the next.
TrainHypermodelFailsAndGoesOn ==
    /\ pc = "ensemble"
    /\ Len(hypermodels) < EnsembleSize
    /\ exc = FALSE
    /\ log' = Append(log, LogRec("Training hypermodel %d", NoHp, Len(hypermodels) + 1))
    /\ exc' = TRUE
    /\ pc' = "ensemble"
    /\ UNCHANGED <<datasets, class_weight, inputs, temp_dir, tuner, trials, best_hps, model,
                   history, es_wait, es_best, stop_training, best_epoch, hypermodels,
                   ensemble_model, saved, evaluated, run, prev, arg, ret>>

\* train_model, lines 128-136: the fit of an ensemble member raises.
TrainHypermodelFails ==
    /\ pc = "ensemble"
    /\ Len(hypermodels) < EnsembleSize
    /\ log' = Append(log, LogRec("Training hypermodel %d", NoHp, Len(hypermodels) + 1))
    /\ exc' = TRUE
    /\ pc' = "raised"
    /\ UNCHANGED <<datasets, class_weight, inputs, temp_dir, tuner, trials, best_hps, model,
                   history, es_wait, es_best, stop_training, best_epoch, hypermodels,
                   ensemble_model, saved, evaluated, run, prev, arg, ret>>

\* A pipeline that evaluates the returned model without persisting it first.
WrapAndReturnToEvaluate ==
    /\ pc = "ensemble"
    /\ Len(hypermodels) = EnsembleSize
    /\ ensemble_model' = <<wrap_ensemble(inputs, hypermodels)>>
    /\ log' = log \o << LogRec("Wrapping ensemble model", NoHp, 0),
                        LogRec("Model trained", NoHp, 0) >>
    /\ pc' = "evaluate"
    /\ UNCHANGED <<datasets, class_weight, inputs, temp_dir, tuner, trials, exc, best_hps, model,
                   history, es_wait, es_best, stop_training, best_epoch, hypermodels,
                   saved, evaluated, run, prev, arg, ret>>

\* train_model, lines 139-143: the members are wrapped and train_model returns.
WrapAndReturn ==
    /\ pc = "ensemble"
    /\ Len(hypermodels) = EnsembleSize
    /\ ensemble_model' = <<wrap_ensemble(inputs, hypermodels)>>
    /\ log' = log \o << LogRec("Wrapping ensemble model", NoHp, 0),
                        LogRec("Model trained", NoHp, 0) >>
    /\ pc' = "save"
    /\ UNCHANGED <<datasets, class_weight, inputs, temp_dir, tuner, trials, exc, best_hps, model,
                   history, es_wait, es_best, stop_training, best_epoch, hypermodels,
                   saved, evaluated, run, prev, arg, ret>>

\* train, lines 236-237.
SaveModel ==
    /\ pc = "save"
    /\ log' = Append(log, LogRec("Saving model to %s", NoHp, 0))
    /\ saved' = ensemble_model
    /\ pc' = "evaluate"
    /\ UNCHANGED <<datasets, class_weight, inputs, temp_dir, tuner, trials, exc, best_hps, model,
                   history, es_wait, es_best, stop_training, best_epoch, hypermodels,
                   ensemble_model, evaluated, run, prev, arg, ret>>

\* train, lines 239-247: evaluate, predict and the ROC AUC score on eval_ds.
EvaluateModel ==
    /\ pc = "evaluate"
    /\ evaluated' = <<[model |-> ensemble_model[1], data |-> "eval_ds"]>>
    /\ log' = log \o << LogRec("Evaluating model...", NoHp, 0),
                        LogRec("Eval loss: %.3f, accuracy: %.3f, auc: %.3f", NoHp, 0),
                        LogRec("Eval ROC AUC score: %.3f", NoHp, 0) >>
    /\ pc' = "done"
    /\ UNCHANGED <<datasets, class_weight, inputs, temp_dir, tuner, trials, exc, best_hps, model,
                   history, es_wait, es_best, stop_training, best_epoch, hypermodels,
                   ensemble_model, saved, run, prev, arg, ret>>

PipeNext(Hps, Ss, As, Ls, Os) ==
    \/ MakeCsvDataset
    \/ GetClassWeights
    \/ DeriveInputs
    \/ EnterWith
    \/ NewHyperband
    \/ NewHyperbandFails
    \/ SearchTrial(Hps, Ss)
    \/ SearchTrialFails
    \/ GetBestHyperparameters
    \/ ExitWith
    \/ RetrainBuild
    \/ RetrainEpoch(As, Ls)
    \/ RetrainFitFails
    \/ SelectBestEpoch
    \/ TrainHypermodel(Os)
    \/ TrainHypermodelFails
    \/ WrapAndReturn
    \/ SaveModel
    \/ EvaluateModel

Next == PipeNext(SampledHps, Scores, PipeAucs, PipeLosses, PipeOutputs)

Spec == Init /\ [][Next]_vars

\* The retrain study: the same pipeline, with the metric values of the retrain fit
\* drawn from the wider sets.
NextFit == PipeNext(FitHps, FitScores, FitAucs, FitLosses, FitOutputs)

SpecFit == Init /\ [][NextFit]_vars

(***************************************************************************)
(* Two invocations of train on the same files, one after the other.       *)
(***************************************************************************)
\* train has returned and is called again with the same arguments; what the
\* first invocation selected is remembered in prev.
Rerun ==
    /\ pc = "done"
    /\ run = 1
    /\ run' = 2
    /\ prev' = <<[trials |-> trials, best_hps |-> best_hps, best_epoch |-> best_epoch]>>
    /\ pc' = "datasets"
    /\ datasets' = <<>>
    /\ class_weight' = {}
    /\ inputs' = {}
    /\ temp_dir' = "absent"
    /\ tuner' = <<>>
    /\ trials' = <<>>
    /\ exc' = FALSE
    /\ best_hps' = NoHp
    /\ model' = <<>>
    /\ history' = <<>>
    /\ es_wait' = 0
    /\ es_best' = Inf
    /\ stop_training' = FALSE
    /\ best_epoch' = 0
    /\ hypermodels' = <<>>
    /\ ensemble_model' = <<>>
    /\ saved' = <<>>
    /\ evaluated' = <<>>
    /\ log' = <<>>
    /\ UNCHANGED <<arg, ret>>

NextTwoRuns ==
    \/ PipeNext(SampledHps, Scores, TwoRunAucs, TwoRunLosses, TwoRunOutputs)
    \/ Rerun

SpecTwoRuns == Init /\ [][NextTwoRuns]_vars

(***************************************************************************)
(* Function-level studies: the argument is drawn by Init, the action       *)
(* applies the function.                                                   *)
(***************************************************************************)
InitCall(Args) ==
    /\ pc = "call"
    /\ PipeInit
    /\ run = 1
    /\ prev = <<>>
    /\ arg \in Args
    /\ ret = <<>>

Return(value) ==
    /\ pc = "call"
    /\ ret' = <<value>>
    /\ pc' = "returned"
    /\ UNCHANGED <<datasets, class_weight, inputs, temp_dir, tuner, trials, exc, best_hps,
                   model, history, es_wait, es_best, stop_training, best_epoch, hypermodels,
                   ensemble_model, saved, evaluated, log, run, prev, arg>>

\* train_model, line 123, on a recorded curve.
CallBestEpoch == Return(BestEpoch(arg))

SpecSelect == InitCall(Curves) /\ [][CallBestEpoch]_vars

\* wrap_ensemble on a list of members, each with its prediction for one input.
CallWrapEnsemble == Return(wrap_ensemble(ElementSpecFeatures \ {"id"}, arg))

SpecWrap == InitCall(MemberLists) /\ [][CallWrapEnsemble]_vars

\* get_hidden on a configuration of the declared domain.
CallGetHidden == Return(get_hidden(arg))

SpecBuild == InitCall(HpSpace) /\ [][CallGetHidden]_vars

(***************************************************************************)
(* Properties.                                                             *)
(***************************************************************************)
InWith == pc \in {"tuner", "search", "exit_with"}
AfterSearch == pc \in {"retrain_build", "retrain_fit", "ensemble", "save", "evaluate", "done"}
AfterSelect == pc \in {"ensemble", "save", "evaluate", "done"}
Returned == pc \in {"save", "evaluate", "done"}

\* C1: on every non-empty recorded validation-AUC curve the selected best epoch is
\* the 1-indexed position of the first occurrence of the curve's maximum.
C1_BestEpochIsFirstMaximum ==
    pc = "returned" =>
        /\ ret[1] \in 1..Len(arg)
        /\ \A j \in 1..Len(arg) : arg[j] <= arg[ret[1]]
        /\ \A j \in 1..(ret[1] - 1) : arg[j] < arg[ret[1]]

\* The curve 0.5, 0.7, 0.9, 0.9, 0.6 gives epoch 3.
C1_Witness == pc = "returned" /\ arg = <<50, 70, 90, 90, 60>> /\ ret = <<3>>

\* C2: once train_model has returned, exactly 3 members were built, each from the
\* best configuration, each fitted for best_epoch epochs on train_and_valid_ds with
\* no callbacks and with the class weights, and the list only ever grows at its end,
\* so the members are held in the order they were trained.
C2_EnsembleMembers ==
    [][ /\ Len(hypermodels') >= Len(hypermodels)
        /\ SubSeq(hypermodels', 1, Len(hypermodels)) = hypermodels
        /\ Returned' =>
              /\ Len(hypermodels') = 3
              /\ \A i \in 1..Len(hypermodels') :
                    /\ hypermodels'[i].net = build_model(best_hps', inputs')
                    /\ hypermodels'[i].epochs = best_epoch'
                    /\ hypermodels'[i].data = "train_and_valid_ds"
                    /\ hypermodels'[i].callbacks = {}
                    /\ hypermodels'[i].class_weight = ClassWeightTable
              /\ ensemble_model'[1].members = hypermodels' ]_vars

C2_Witness ==
    /\ pc = "done"
    /\ Len(hypermodels) = 3
    /\ best_epoch = 2
    /\ \A i \in 1..3 : hypermodels[i].epochs = 2 /\ hypermodels[i].callbacks = {}

\* C3: the output of the wrapped model is the arithmetic mean of its members'
\* outputs (their sum over their number), whatever the order of the members.
SumOver(f, S) ==
    LET RECURSIVE Sum(_)
        Sum(T) == IF T = {} THEN 0
                  ELSE LET x == CHOOSE y \in T : TRUE IN f[x] + Sum(T \ {x})
    IN  Sum(S)

MemberOrders(n) == {p \in [1..n -> 1..n] : \A i, j \in 1..n : i # j => p[i] # p[j]}

C3_EnsembleOutputIsMean ==
    pc = "returned" =>
        LET n == Len(arg)
            out == ret[1].output
        IN  /\ out.den = n
            /\ out.num = SumOver([i \in 1..n |-> arg[i].output], 1..n)
            /\ \A p \in MemberOrders(n) :
                  wrap_ensemble(ret[1].inputs, [i \in 1..n |-> arg[p[i]]]).output = out

\* Members predicting 0.2, 0.4 and 0.6 give 0.4.
C3_Witness ==
    /\ pc = "returned"
    /\ Len(arg) = 3
    /\ arg[1].output * 10 = 2 * Scale
    /\ arg[2].output * 10 = 4 * Scale
    /\ arg[3].output * 10 = 6 * Scale
    /\ ret[1].output.num * 10 = 4 * Scale * ret[1].output.den

\* C4 as stated: the steps of train in the order class weights, datasets, Feature
\* Set, search, retrain-and-select, ensemble training, wrapping, persisting,
\* evaluation, each starting only after the one before it has completed.
DatasetNames == [i \in 1..Len(datasets) |-> datasets[i].name]
DatasetsInOrder ==
    DatasetNames = SubSeq(<<"train_ds", "valid_ds", "train_and_valid_ds", "eval_ds">>,
                          1, Len(datasets))
DatasetsStarted == Len(datasets) > 0
DatasetsDone == Len(datasets) = 4
ClassWeightsDone == class_weight # {}
FeatureSetDone == inputs # {}
SearchStarted == temp_dir # "absent"
SearchDone == best_hps # NoHp /\ temp_dir = "removed"
RetrainStarted == model # <<>>
RetrainDone == best_epoch # 0
EnsembleStarted == hypermodels # <<>>
EnsembleDone == Len(hypermodels) = 3
Wrapped == ensemble_model # <<>>
Persisted == saved # <<>>
Evaluated == evaluated # <<>>

LaterSteps ==
    /\ SearchStarted => FeatureSetDone
    /\ RetrainStarted => SearchDone
    /\ EnsembleStarted => RetrainDone
    /\ Wrapped => EnsembleDone
    /\ Persisted => Wrapped /\ saved = ensemble_model
    /\ Evaluated => Persisted

C4_ClaimedOrder ==
    /\ DatasetsInOrder
    /\ DatasetsStarted => ClassWeightsDone
    /\ FeatureSetDone => DatasetsDone
    /\ LaterSteps

\* C4 as amended: the datasets are built first and the class weights are computed
\* after them; the rest of the order is as stated.
C4_PipelineOrder ==
    /\ DatasetsInOrder
    /\ ClassWeightsDone => DatasetsDone
    /\ FeatureSetDone => ClassWeightsDone
    /\ LaterSteps

C4_Witness == pc = "done" /\ DatasetsDone /\ ClassWeightsDone /\ Persisted /\ Evaluated

\* C5: the search workspace exists exactly while control is inside the with block
\* of the search; it is removed on the success path before the retrain begins and
\* on the failure paths before the exception leaves train_model.
C5_WorkspaceLifetime ==
    /\ InWith => temp_dir = "exists"
    /\ temp_dir = "exists" => InWith
    /\ AfterSearch \/ pc = "raised" => temp_dir = "removed"

\* A trial failed after another had completed, and the workspace is gone.
C5_Witness == pc = "raised" /\ Len(trials) = 1 /\ model = <<>> /\ temp_dir = "removed"

\* C6: after the search one configuration is selected, a trial with that
\* configuration has the highest objective of all trials, and the retrained model
\* and every ensemble member are built from it.
C6_BestConfiguration ==
    /\ AfterSearch => best_hps # NoHp
    /\ best_hps # NoHp =>
          \E i \in 1..Len(trials) :
              /\ trials[i].hp = best_hps
              /\ \A j \in 1..Len(trials) : trials[j].score <= trials[i].score
    /\ model # <<>> => model[1].hp = best_hps
    /\ \A i \in 1..Len(hypermodels) : hypermodels[i].net.hp = best_hps

\* The second trial scored higher than the first, with another configuration.
C6_Witness ==
    /\ pc = "done"
    /\ Len(trials) = 2
    /\ trials[2].score > trials[1].score
    /\ trials[1].hp # trials[2].hp
    /\ best_hps = trials[2].hp

\* C7: once a fit (or the tuner's construction) has failed, nothing is retried and
\* no later phase runs: the only step left is leaving the with block, no trial,
\* model, epoch or member is added, and no ensemble is returned, persisted or
\* evaluated.
C7_FailureIsFatal ==
    [][ /\ exc => /\ pc' = "raised"
                  /\ UNCHANGED <<trials, best_hps, model, history, best_epoch,
                                 hypermodels, ensemble_model, saved, evaluated>>
        /\ exc' => ensemble_model' = <<>> /\ saved' = <<>> /\ evaluated' = <<>> ]_vars

\* The third member failed after two were trained.
C7_Witness ==
    /\ pc = "raised"
    /\ exc
    /\ Len(hypermodels) = 2
    /\ ensemble_model = <<>>
    /\ saved = <<>>

\* C8: two invocations on the same files, with the same shuffle seed and no ties in
\* the search objective, select the same hyperparameters and the same best epoch.
NoTies(t) == \A i, j \in 1..Len(t) : i # j => t[i].score # t[j].score

C8_Reproducible ==
    (run = 2 /\ AfterSelect /\ NoTies(trials) /\ NoTies(prev[1].trials)) =>
        /\ best_hps = prev[1].best_hps
        /\ best_epoch = prev[1].best_epoch

\* C9: get_hidden builds `layers` blocks, the k-th of width first_layer_units
\* integer-divided by 2^(k-1), which is at least 1 on the declared domain.
RECURSIVE Pow2(_)
Pow2(k) == IF k = 0 THEN 1 ELSE 2 * Pow2(k - 1)

C9_LayerWidths ==
    pc = "returned" =>
        /\ Len(ret[1]) = arg.layers
        /\ \A k \in 1..Len(ret[1]) :
              /\ ret[1][k].units = arg.first_layer_units \div Pow2(k - 1)
              /\ ret[1][k].units >= 1

\* layers = 3 with first_layer_units = 32 gives 32, 16, 8.
C9_Witness ==
    /\ pc = "returned"
    /\ arg.layers = 3
    /\ arg.first_layer_units = 32
    /\ [k \in 1..3 |-> ret[1][k].units] = <<32, 16, 8>>

\* C10: the retrain fit runs between 1 and 10 epochs, fewer than 10 only when
\* early stopping has counted 3 epochs without improvement; the best epoch is one
\* of the epochs run; every ensemble member is trained for 1 to 10 epochs.
C10_EpochBudget ==
    /\ Len(history) <= 10
    /\ AfterSelect =>
          /\ Len(history) >= 1
          /\ best_epoch \in 1..Len(history)
          /\ Len(history) < 10 => stop_training /\ es_wait = 3 /\ Len(history) >= 3
    /\ \A i \in 1..Len(hypermodels) : hypermodels[i].epochs \in 1..10

\* The fit stopped early after 5 epochs, the best one being the last.
C10_Witness ==
    /\ pc = "done"
    /\ Len(history) = 5
    /\ best_epoch = 5
    /\ \A i \in 1..3 : hypermodels[i].epochs = 5

====
